---------------------------- MODULE Spec2Model ----------------------------
(***************************************************************************)
(* Rapa Nui ecosystem engine (src/python/rat_simulation.py): the forcing   *)
(* functions, the rate rules of ecosystem_dynamics, the simulation driver  *)
(* run_simulation and the comparison layer run_comparison_simulation.      *)
(*                                                                         *)
(* Numbers.  The program computes in binary floating point; the model      *)
(* computes in 32-bit fixed point:                                         *)
(*   - populations (rats, palms) in units of 1/PU individual; the rats     *)
(*     carry SUB further sub-units per unit (rats_sub), so that the growth *)
(*     of a population of two rats is resolved; people in 1/TU person,     *)
(*   - times and ages in units of 1/TU year,                               *)
(*   - dimensionless factors and per-year rates in Q20 (ONE = 2^20),       *)
(*   - a decimal literal of the source (0.005, 2.5, ...) as the exact      *)
(*     rational <<numerator, denominator>>.                                *)
(* A rate of change is in state units per year.                            *)
(***************************************************************************)
EXTENDS Integers, Sequences, FiniteSets, TLC

-----------------------------------------------------------------------------
(* Fixed-point arithmetic standing for the float operations of the source. *)

ONE == 2^20
TU == 2^15
PU == 2^5
SUB == 2^10

Abs(a) == IF a < 0 THEN -a ELSE a
Min(a, b) == IF a <= b THEN a ELSE b
Max(a, b) == IF a >= b THEN a ELSE b

\* floor(a*b / 2^k) for 0 <= a, b < 2^30 and 15 <= k <= 30, without overflow.
MulShiftNat(a, b, k) ==
    LET a1 == a \div 32768
        a0 == a % 32768
        b1 == b \div 32768
        b0 == b % 32768
    IN  a1 * b1 * 2^(30 - k)
          + (a1 * b0 + a0 * b1 + (a0 * b0) \div 32768) \div 2^(k - 15)

\* The signed product a*b / 2^k, rounded toward zero.
MulShift(a, b, k) ==
    IF (a < 0) # (b < 0)
    THEN -MulShiftNat(Abs(a), Abs(b), k)
    ELSE MulShiftNat(Abs(a), Abs(b), k)

\* The product of a value and a Q20 factor.
MulQ(a, b) == MulShift(a, b, 20)

\* The product of a value and a decimal literal p = <<n, d>>: floor(a*n/d).
MulR(a, p) == (a \div p[2]) * p[1] + ((a % p[2]) * p[1]) \div p[2]

\* Long division, c bits of the quotient at a time.
Chunk(b) == IF b < 2^21 THEN 10 ELSE IF b < 2^26 THEN 5 ELSE IF b < 2^29 THEN 2 ELSE 1

RECURSIVE DivFrac(_, _, _, _)
DivFrac(r, b, bits, c) ==
    IF bits = 0 THEN 0
    ELSE LET x == r * 2^c
         IN  (x \div b) * 2^(bits - c) + DivFrac(x % b, b, bits - c, c)

\* floor(a * 2^bits / b) for a >= 0, b > 0: the quotient a/b in Q<bits>.
DivFix(a, b, bits) ==
    IF b >= 2^30
    THEN ((a \div 2) \div (b \div 2)) * 2^bits
           + DivFrac((a \div 2) % (b \div 2), b \div 2, bits, 1)
    ELSE (a \div b) * 2^bits + DivFrac(a % b, b, bits, Chunk(b))

\* The quotient a/b in Q20.
DivQ(a, b) == DivFix(a, b, 20)

\* ln 2, pi/2, pi and 2 pi in Q20.
LN2 == 726817
HALF_PI == 1647099
PI == 3294199
TWO_PI == 6588397

\* e^r for 0 <= r < ln 2 (Q20): the Taylor series to degree 8, Horner form.
RECURSIVE ExpHorner(_, _, _)
ExpHorner(r, n, acc) ==
    IF n = 0 THEN acc ELSE ExpHorner(r, n - 1, ONE + MulQ(r, acc) \div n)

ExpSeries(r) == ExpHorner(r, 8, ONE)

\* np.exp(x), x in Q20: e^x = 2^n * e^r with x = n ln 2 + r.
Exp(x) ==
    LET n == x \div LN2
        e == ExpSeries(x - n * LN2)
    IN  IF n >= 0 THEN e * 2^n
        ELSE IF n < -30 THEN 0
        ELSE e \div 2^(-n)

\* ln(n/d) in Q30 for a literal n/d near 1: ln(1+u) = u - u^2/2 + u^3/3.
Ln1p(p) ==
    IF p[1] >= p[2]
    THEN LET u == DivFix(p[1] - p[2], p[2], 30)
             u2 == MulShift(u, u, 30)
             u3 == MulShift(u2, u, 30)
         IN  u - u2 \div 2 + u3 \div 3
    ELSE LET v == DivFix(p[2] - p[1], p[2], 30)
             v2 == MulShift(v, v, 30)
             v3 == MulShift(v2, v, 30)
         IN  -(v + v2 \div 2 + v3 \div 3)

\* p ** t for a literal p and a time t (1/TU year): e^(t ln p), in Q20.
PowT(p, t) == Exp(MulShift(Ln1p(p), t, 25))

\* sin x for -pi/2 <= x <= pi/2 (Q20): the Taylor series to degree 9.
SinSeries(x) ==
    LET x2 == MulQ(x, x)
        a4 == ONE - MulQ(x2, ONE) \div 72
        a3 == ONE - MulQ(x2, a4) \div 42
        a2 == ONE - MulQ(x2, a3) \div 20
        a1 == ONE - MulQ(x2, a2) \div 6
    IN  MulQ(x, a1)

\* np.sin(2*pi*t - pi/2) for a time t (1/TU year), in Q20, within [-1, 1].
SinSeason(t) ==
    LET th == MulShift(TWO_PI, t % TU, 15) - HALF_PI
        s == IF th <= HALF_PI THEN SinSeries(th) ELSE SinSeries(PI - th)
    IN  Max(-ONE, Min(ONE, s))

-----------------------------------------------------------------------------
(* Parameters set by RapaNuiEcosystem.__init__.                            *)

default_rat_intrinsic_growth == <<5, 2>>
rat_natural_mortality == <<1, 1>>
rat_base_carrying_capacity_per_tree == <<1, 2>>
rat_peak_carrying_capacity_per_tree == <<4, 1>>
rat_minimum_viable_population == 50
palm_maturation_time == 70
palm_max_lifespan == 500
palm_natural_mortality_young == <<1, 100>>
palm_natural_mortality_mature == <<5, 1000>>
palm_senescence_age == 400
palm_max_reproduction == <<25, 1000>>
seed_predation_efficiency == <<95, 100>>
palm_refugia_effect == <<1, 10000>>
initial_humans == 20
human_carrying_capacity == 3000
human_intrinsic_growth == <<25, 1000>>
clearing_per_person_per_year == <<5, 1>>
agricultural_intensification == <<1003, 1000>>
clearing_efficiency_decline == <<9995, 10000>>
rat_harvest_rate == <<25, 100>>
default_initial_rats == 2
default_initial_mature_palms == 9000000
default_initial_young_palms == 6000000
initial_mature_age == 150

\* 1 - p for a decimal literal p.
OneMinus(p) == <<p[2] - p[1], p[2]>>

-----------------------------------------------------------------------------
(* The rat attributes of the instance, which a caller may set before a    *)
(* run and no method of the engine assigns.                                *)

VARIABLES
    rat_intrinsic_growth,    \* self.rat_intrinsic_growth, a decimal literal
    initial_rats             \* self.initial_rats

configuration == << rat_intrinsic_growth, initial_rats >>

-----------------------------------------------------------------------------
(* Forcing functions.                                                      *)

\* Variant: the initial deficit is taken relative to K, not to P0.
human_population_deficit_over_K(t) ==
    LET K == human_carrying_capacity
        P0 == initial_humans
        rt == MulR(t * 32, human_intrinsic_growth)
    IN  DivQ(K * TU, ONE + MulQ(DivQ(K - P0, K), Exp(-rt)))

\* human_population(t): K / (1 + ((K - P0) / P0) * exp(-r t)), in 1/TU person.
human_population(t) ==
    LET K == human_carrying_capacity
        P0 == initial_humans
        rt == MulR(t * 32, human_intrinsic_growth)
    IN  DivQ(K * TU, ONE + MulQ(DivQ(K - P0, P0), Exp(-rt)))

\* 0.5 * (1 + sin(2 pi t - pi/2)), in Q20.
seasonal_factor(t) == (ONE + SinSeason(t)) \div 2

\* The per-tree capacity: base + seasonal_factor * (peak - base), in Q20.
carrying_capacity_per_tree(t) ==
    LET base == DivQ(rat_base_carrying_capacity_per_tree[1],
                     rat_base_carrying_capacity_per_tree[2])
        peak == DivQ(rat_peak_carrying_capacity_per_tree[1],
                     rat_peak_carrying_capacity_per_tree[2])
    IN  base + MulQ(seasonal_factor(t), peak - base)

\* Variant: the capacity without the floor of the minimum viable population.
seasonal_rat_carrying_capacity_unfloored(t, mature_palms) ==
    MulQ(mature_palms, carrying_capacity_per_tree(t))

\* seasonal_rat_carrying_capacity(t, mature_palms), in 1/PU rat.
seasonal_rat_carrying_capacity(t, mature_palms) ==
    Max(rat_minimum_viable_population * PU,
        MulQ(mature_palms, carrying_capacity_per_tree(t)))

-----------------------------------------------------------------------------
(* The rate rules of ecosystem_dynamics.                                   *)

\* Variant: only the three populations are clamped, the age is used as given.
ClampPopulationsOnly(state) ==
    [k \in 1..4 |-> IF k = 4 THEN state[k] ELSE Max(state[k], 0)]

\* np.maximum(state, 0).
ClampState(state) == [k \in 1..4 |-> Max(state[k], 0)]

\* Variant: the mortality without the cap of 10% per year.
mature_mortality_uncapped(mature_avg_age) ==
    LET senescence == palm_senescence_age * TU
        lifespan == palm_max_lifespan * TU
        m1 == IF mature_avg_age < senescence
              THEN DivQ(palm_natural_mortality_mature[1],
                        palm_natural_mortality_mature[2])
              ELSE LET senescence_factor ==
                           DivQ(mature_avg_age - senescence, 100 * TU)
                   IN  MulR(ONE + 2 * senescence_factor,
                            palm_natural_mortality_mature)
    IN  IF mature_avg_age > MulR(lifespan, <<8, 10>>)
        THEN LET lifespan_factor ==
                     DivQ(mature_avg_age - MulR(lifespan, <<8, 10>>),
                          MulR(lifespan, <<2, 10>>))
             IN  MulQ(m1, ONE + 5 * lifespan_factor)
        ELSE m1

\* Variant: the penalty near the maximum lifespan grows to 11 times.
mature_mortality_steeper_penalty(mature_avg_age) ==
    LET senescence == palm_senescence_age * TU
        lifespan == palm_max_lifespan * TU
        m1 == IF mature_avg_age < senescence
              THEN DivQ(palm_natural_mortality_mature[1],
                        palm_natural_mortality_mature[2])
              ELSE LET senescence_factor ==
                           DivQ(mature_avg_age - senescence, 100 * TU)
                   IN  MulR(ONE + 2 * senescence_factor,
                            palm_natural_mortality_mature)
        m2 == IF mature_avg_age > MulR(lifespan, <<8, 10>>)
              THEN LET lifespan_factor ==
                           DivQ(mature_avg_age - MulR(lifespan, <<8, 10>>),
                                MulR(lifespan, <<2, 10>>))
                   IN  MulQ(m1, ONE + 10 * lifespan_factor)
              ELSE m1
    IN  Min(m2, DivQ(1, 10))

\* The capped age-dependent mortality of mature palms, per year in Q20.
mature_mortality(mature_avg_age) ==
    LET senescence == palm_senescence_age * TU
        lifespan == palm_max_lifespan * TU
        m1 == IF mature_avg_age < senescence
              THEN DivQ(palm_natural_mortality_mature[1],
                        palm_natural_mortality_mature[2])
              ELSE LET senescence_factor ==
                           DivQ(mature_avg_age - senescence, 100 * TU)
                   IN  MulR(ONE + 2 * senescence_factor,
                            palm_natural_mortality_mature)
        m2 == IF mature_avg_age > MulR(lifespan, <<8, 10>>)
              THEN LET lifespan_factor ==
                           DivQ(mature_avg_age - MulR(lifespan, <<8, 10>>),
                                MulR(lifespan, <<2, 10>>))
                   IN  MulQ(m1, ONE + 5 * lifespan_factor)
              ELSE m1
    IN  Min(m2, DivQ(1, 10))

\* The rats in sub-units (1/(PU*SUB) rat), for populations below 2^20 units.
FineRats(rats, rats_sub) == rats * SUB + rats_sub

\* Variant: the harvest is computed whether or not human impact is enabled.
rat_harvest_unconditional(flag, humans, t, rats, rats_sub) ==
    LET rat_harvest_pressure ==
            MulQ(MulR(humans, rat_harvest_rate), Min(ONE, DivQ(t, 150 * TU)))
    IN  IF rats >= 2^20
        THEN rat_harvest_pressure
        ELSE Min(rat_harvest_pressure, MulR(FineRats(rats, rats_sub), <<4, 10>>))

\* Variant: the harvest is not limited to 40% of the rats.
rat_harvest_uncapped(flag, humans, t, rats, rats_sub) ==
    IF flag
    THEN MulQ(MulR(humans, rat_harvest_rate), Min(ONE, DivQ(t, 150 * TU)))
    ELSE 0

\* rat_harvest: the rats taken by people per year (0 without human impact),
\* min(rat_harvest_pressure, rats * 0.4), in sub-units per year.
rat_harvest(flag, humans, t, rats, rats_sub) ==
    IF flag
    THEN LET rat_harvest_pressure ==
                 MulQ(MulR(humans, rat_harvest_rate), Min(ONE, DivQ(t, 150 * TU)))
         IN  IF rats >= 2^20
             THEN rat_harvest_pressure
             ELSE Min(rat_harvest_pressure,
                      MulR(FineRats(rats, rats_sub), <<4, 10>>))
    ELSE 0

\* The harvest subtracted in the small-population branch, in sub-units per year.
small_population_harvest(flag, harvest) ==
    MulR(harvest, IF flag THEN <<1, 10>> ELSE <<0, 1>>)

\* Variant: the normal branch is taken from the threshold on.
from_minimum_viable(rats, rats_sub) ==
    rats >= rat_minimum_viable_population * PU

\* The condition of line 136: rats > rat_minimum_viable_population.
above_minimum_viable(rats, rats_sub) ==
    \/ rats > rat_minimum_viable_population * PU
    \/ rats = rat_minimum_viable_population * PU /\ rats_sub > 0

\* The harvest term subtracted from rat growth in the branch taken.
rat_harvest_term(flag, rats, rats_sub, harvest) ==
    IF above_minimum_viable(rats, rats_sub)
    THEN harvest
    ELSE small_population_harvest(flag, harvest)

\* Variant: the harvest is added to the growth of the rats.
rat_growth_normal_harvest_added(rats, rat_carrying_capacity, harvest) ==
    LET growth == MulQ(MulR(rats, rat_intrinsic_growth),
                       ONE - DivQ(rats, rat_carrying_capacity))
                    - MulR(rats, rat_natural_mortality)
    IN  << growth + harvest \div SUB, harvest % SUB >>

\* Lines 136-140, normal growth: logistic growth at the full intrinsic rate,
\* natural death and the full harvest, as <<units, sub-units>> per year.
rat_growth_normal(rats, rat_carrying_capacity, harvest) ==
    LET growth == MulQ(MulR(rats, rat_intrinsic_growth),
                       ONE - DivQ(rats, rat_carrying_capacity))
                    - MulR(rats, rat_natural_mortality)
    IN  << growth + (-harvest) \div SUB, (-harvest) % SUB >>

\* Variant: the natural mortality of a small rat population is left out.
rat_growth_small_without_mortality(flag, rats, rats_sub, rat_carrying_capacity, harvest) ==
    LET fine == FineRats(rats, rats_sub)
        growth == MulQ(MulR(MulR(fine, rat_intrinsic_growth), <<5, 10>>),
                       ONE - DivQ(rats, rat_carrying_capacity))
                    - small_population_harvest(flag, harvest)
    IN  << growth \div SUB, growth % SUB >>

\* Lines 141-147, small population: half the intrinsic rate and a tenth of
\* the harvest (none without human impact), as <<units, sub-units>> per year.
rat_growth_small(flag, rats, rats_sub, rat_carrying_capacity, harvest) ==
    LET fine == FineRats(rats, rats_sub)
        growth == MulQ(MulR(MulR(fine, rat_intrinsic_growth), <<5, 10>>),
                       ONE - DivQ(rats, rat_carrying_capacity))
                    - MulR(fine, rat_natural_mortality)
                    - small_population_harvest(flag, harvest)
    IN  << growth \div SUB, growth % SUB >>

\* rat_growth: birth, natural death and harvest, as <<units, sub-units>> per
\* year with 0 <= sub-units < SUB.
rat_growth(flag, rats, rats_sub, rat_carrying_capacity, harvest) ==
    IF above_minimum_viable(rats, rats_sub)
    THEN rat_growth_normal(rats, rat_carrying_capacity, harvest)
    ELSE rat_growth_small(flag, rats, rats_sub, rat_carrying_capacity, harvest)

\* Variant: the condition on the flag is inverted.
clearing_rate_inverted(flag, humans, t, total_palms, initial_total) ==
    IF ~flag
    THEN LET clearing_efficiency ==
                 MulQ(PowT(clearing_efficiency_decline, t),
                      DivQ(total_palms, initial_total))
         IN  MulQ(MulQ(MulR(humans \div SUB, clearing_per_person_per_year),
                       PowT(agricultural_intensification, t)),
                  clearing_efficiency)
    ELSE 0

\* Variant: the clearing of one person, not multiplied by the population.
clearing_rate_one_person(flag, humans, t, total_palms, initial_total) ==
    IF flag
    THEN LET clearing_efficiency ==
                 MulQ(PowT(clearing_efficiency_decline, t),
                      DivQ(total_palms, initial_total))
         IN  MulQ(MulQ(MulR(PU, clearing_per_person_per_year),
                       PowT(agricultural_intensification, t)),
                  clearing_efficiency)
    ELSE 0

\* clearing_rate: palms cleared per year (0 without human clearing).
clearing_rate(flag, humans, t, total_palms, initial_total) ==
    IF flag
    THEN LET clearing_efficiency ==
                 MulQ(PowT(clearing_efficiency_decline, t),
                      DivQ(total_palms, initial_total))
         IN  MulQ(MulQ(MulR(humans \div SUB, clearing_per_person_per_year),
                       PowT(agricultural_intensification, t)),
                  clearing_efficiency)
    ELSE 0

\* Variant: the clearing of mature palms is not limited by their stock.
mature_palm_clearing_uncapped(flag, clearing, mature_palms) ==
    IF flag THEN MulR(clearing, <<75, 100>>) ELSE 0

\* mature_palm_clearing: at most 18% of the accessible mature palms.
mature_palm_clearing(flag, clearing, mature_palms) ==
    LET accessible_mature == MulR(mature_palms, OneMinus(palm_refugia_effect))
    IN  IF flag
        THEN Min(MulR(clearing, <<75, 100>>), MulR(accessible_mature, <<18, 100>>))
        ELSE 0

\* young_palm_clearing: at most 12% of the accessible young palms.
young_palm_clearing(flag, clearing, young_palms) ==
    LET accessible_young == MulR(young_palms, OneMinus(palm_refugia_effect))
    IN  IF flag
        THEN Min(MulR(clearing, <<25, 100>>), MulR(accessible_young, <<12, 100>>))
        ELSE 0

\* Variant: only half of the maturing young palms join the mature palms.
mature_palm_recruitment_halved(young_palms) ==
    young_palms \div (2 * palm_maturation_time)

\* mature_palm_recruitment: young palms maturing per year.
mature_palm_recruitment(young_palms) == young_palms \div palm_maturation_time

\* Whether avg_age_change divides by mature_palms (line 170).
avg_age_divides(mature_palms) == mature_palms > 100 * PU

\* Variant: below the threshold the palms still age one year per year.
avg_age_change_ageing_below_threshold(mature_palms, young_palms, mature_avg_age) ==
    IF avg_age_divides(mature_palms)
    THEN LET recruit_age_effect ==
                 MulQ(DivQ(young_palms \div palm_maturation_time, mature_palms),
                      70 * TU - mature_avg_age)
         IN  TU + recruit_age_effect
    ELSE TU

\* Variant: the age increase enters with the wrong sign.
avg_age_change_reversed(mature_palms, young_palms, mature_avg_age) ==
    IF mature_palms > 100 * PU
    THEN LET recruit_age_effect ==
                 MulQ(DivQ(young_palms \div palm_maturation_time, mature_palms),
                      70 * TU - mature_avg_age)
         IN  -TU + recruit_age_effect
    ELSE 0

\* Variant: the recruitment term enters with the wrong sign.
avg_age_change_dilution_reversed(mature_palms, young_palms, mature_avg_age) ==
    IF avg_age_divides(mature_palms)
    THEN LET recruit_age_effect ==
                 MulQ(DivQ(young_palms \div palm_maturation_time, mature_palms),
                      70 * TU - mature_avg_age)
         IN  TU - recruit_age_effect
    ELSE 0

\* avg_age_change: 1 year per year less the dilution by 70-year-old recruits.
avg_age_change(mature_palms, young_palms, mature_avg_age) ==
    IF avg_age_divides(mature_palms)
    THEN LET recruit_age_effect ==
                 MulQ(DivQ(mature_palm_recruitment(young_palms), mature_palms),
                      70 * TU - mature_avg_age)
         IN  TU + recruit_age_effect
    ELSE 0

\* rats + 3000, the divisor of rat_density_effect (half-saturation at 3000).
predation_denominator(rats) == rats + 3000 * PU

\* predation_pressure: efficiency * rats / (rats + 3000), in Q20.
predation_pressure(rats) ==
    MulR(DivQ(rats, predation_denominator(rats)), seed_predation_efficiency)

\* refugia_reproduction: seedlings of the palms in refugia, 10% more each.
refugia_reproduction(mature_palms) ==
    LET refugia_palms == MulR(mature_palms, palm_refugia_effect)
    IN  MulR(MulR(refugia_palms, palm_max_reproduction), <<11, 10>>)

\* accessible_reproduction: seedlings of the palms outside refugia.
accessible_reproduction(mature_palms) ==
    LET accessible_palms == MulR(mature_palms, OneMinus(palm_refugia_effect))
    IN  MulR(accessible_palms, palm_max_reproduction)

\* Variant: the refugia keep 60% of the predation pressure.
refugia_predation_pressure_discounted(pressure) == MulR(pressure, <<6, 10>>)

\* The predation pressure on refugia seeds, predation_pressure * 0.4 (line 193).
refugia_predation_pressure(pressure) == MulR(pressure, <<4, 10>>)

\* refugia_survival: refugia seedlings escaping the rats.
refugia_survival(rats, mature_palms) ==
    MulQ(refugia_reproduction(mature_palms),
         ONE - refugia_predation_pressure(predation_pressure(rats)))

\* accessible_survival: accessible seedlings escaping the rats.
accessible_survival(rats, mature_palms) ==
    MulQ(accessible_reproduction(mature_palms), ONE - predation_pressure(rats))

\* actual_reproduction: refugia and accessible seedlings surviving predation.
actual_reproduction(rats, mature_palms) ==
    refugia_survival(rats, mature_palms) + accessible_survival(rats, mature_palms)

\* The young palms leaving the young cohort by maturation per year (line 201).
young_palm_maturation(young_palms) == young_palms \div palm_maturation_time

\* The return value of ecosystem_dynamics, lines 160-205, from the clamped
\* state s and the terms computed before: the four rates, with the terms they
\* are built from.
DynamicsResult(flag, s, sub, humans, mortality, capacity, harvest, growth, clearing, mature_clearing, young_clearing) ==
    [rates |-> << growth[1],
                  mature_palm_recruitment(s[3])
                    - (MulQ(s[2], mortality) + mature_clearing),
                  actual_reproduction(s[1], s[2])
                    - (MulR(s[3], palm_natural_mortality_young)
                         + young_palm_maturation(s[3])
                         + young_clearing),
                  avg_age_change(s[2], s[3], s[4]) >>,
     rat_growth_sub |-> growth[2],
     clamped |-> s,
     rats_sub |-> sub,
     nominal_harvest |-> harvest,
     mature_palm_recruitment |-> mature_palm_recruitment(s[3]),
     young_palm_maturation |-> young_palm_maturation(s[3]),
     mature_natural_loss |-> MulQ(s[2], mortality),
     young_natural_loss |-> MulR(s[3], palm_natural_mortality_young),
     predation_pressure |-> predation_pressure(s[1]),
     refugia_pressure |-> refugia_predation_pressure(predation_pressure(s[1])),
     refugia_reproduction |-> refugia_reproduction(s[2]),
     refugia_survival |-> refugia_survival(s[1], s[2]),
     actual_reproduction |-> actual_reproduction(s[1], s[2]),
     humans |-> humans,
     mature_mortality |-> mortality,
     rat_carrying_capacity |-> capacity,
     predation_denominator |-> predation_denominator(s[1]),
     avg_age_divides |-> avg_age_divides(s[2]),
     rat_harvest |-> rat_harvest_term(flag, s[1], sub, harvest),
     clearing_rate |-> clearing,
     mature_palm_clearing |-> mature_clearing,
     young_palm_clearing |-> young_clearing]

\* Lines 135-198: rat growth and the clearing of mature and young palms.
DynamicsWithTerms(flag, s, sub, humans, mortality, capacity, harvest, clearing) ==
    DynamicsResult(flag, s, sub, humans, mortality, capacity, harvest,
                   rat_growth(flag, s[1], sub, capacity, harvest),
                   clearing,
                   mature_palm_clearing(flag, clearing, s[2]),
                   young_palm_clearing(flag, clearing, s[3]))

\* Lines 104-157: mortality, carrying capacity, harvest and clearing rate of
\* the clamped state s = <<rats, mature_palms, young_palms, mature_avg_age>>.
DynamicsOfClamped(flag, initial_total, s, sub, t, humans) ==
    DynamicsWithTerms(flag, s, sub, humans,
                      mature_mortality(s[4]),
                      seasonal_rat_carrying_capacity(t, s[2]),
                      rat_harvest(flag, humans, t, s[1], sub),
                      clearing_rate(flag, humans, t, s[2] + s[3], initial_total))

\* ecosystem_dynamics(state, t) of an engine whose disturbance flag is `flag`
\* and whose initial palm total is `initial_total`.  rats_sub extends state[1].
ecosystem_dynamics(flag, initial_total, state, rats_sub, t) ==
    DynamicsOfClamped(flag, initial_total, ClampState(state),
                      IF state[1] < 0 THEN 0 ELSE rats_sub, t,
                      human_population(t))

-----------------------------------------------------------------------------
(* The engine instance, its callers and the runs in progress.              *)

VARIABLES
    enable_human_clearing,   \* self.enable_human_clearing
    initial_mature_palms,    \* self.initial_mature_palms (palms)
    initial_young_palms,     \* self.initial_young_palms (palms)
    pc,           \* "new", "ready", "run" (inside odeint), "compare", "done"
    call,         \* the public method executing or last executed
    scenario,     \* the run in progress: "standard", "rats_only", "rats_humans"
    entry_flag,   \* enable_human_clearing when the public method was entered
    years,        \* the horizon of the run in progress
    i,            \* index in the time grid of the sample in `state`
    state,        \* solution[i] = <<rats, mature_palms, young_palms, mature_avg_age>>
    rats_sub,     \* the part of state[1] below one unit, in sub-units
    below,        \* per threshold, the first index with total_palms below it, or -1
    solution,     \* the samples of the run so far, when the observer keeps them
    returned,     \* what the finished runs returned, in call order
    calls_left,   \* public calls the caller still makes
    observe,      \* whether the observer keeps every sample of every run
    probe,        \* a direct evaluation of one function: its input and output
    solver_status,  \* "ok", or "failed" once odeint has given up in this run
    statistics,   \* what print_comparison_statistics computed, if it has run
    io            \* the kinds of I/O performed: "console", "figure", "file"

vars == << rat_intrinsic_growth, initial_rats, enable_human_clearing,
           initial_mature_palms, initial_young_palms, pc, call, scenario, entry_flag, years, i, state, rats_sub, below,
           solution, returned, calls_left, observe, probe, solver_status,
           statistics, io >>

\* The horizon main() passes, a short horizon, and the horizons of observed runs.
DefaultYears == 522
ShortYears == 38
MaxObservedYears == 2

\* A second configuration of the initial palm stock.
AltMaturePalms == 6060000
AltYoungPalms == 4000000

DefaultStock == <<default_initial_mature_palms, default_initial_young_palms>>

InitialStocks == { DefaultStock, <<AltMaturePalms, AltYoungPalms>> }

Horizons == {DefaultYears, ShortYears} \cup (1..MaxObservedYears)

\* The cases explored: method, horizon, initial stock, flag at entry.
InputCase(method, y, stock, flag) ==
    IF observe
    THEN y \in 1..MaxObservedYears /\ stock = DefaultStock
    ELSE \/ y = DefaultYears /\ stock = DefaultStock
         \/ y = ShortYears /\ stock = DefaultStock
         \/ /\ method = "run_comparison_simulation"
            /\ y = ShortYears
            /\ flag

\* The milestone thresholds of print_comparison_statistics.
thresholds == <<10000000, 5000000, 1000000, 100000, 10000>>

\* t[k] of np.linspace(0, years, years * 8), 0-based, in 1/TU year.
GridSize(y) == y * 8

GridTime(k, y) ==
    LET n == GridSize(y)
    IN  ((k * y) \div (n - 1)) * TU + (((k * y) % (n - 1)) * TU) \div (n - 1)

\* Variant: np.linspace(0, years, years * 8, endpoint=False).
linspace_without_endpoint(y) ==
    [num |-> [j \in 1..GridSize(y) |-> (j - 1) * y], den |-> GridSize(y)]

\* The grid np.linspace(0, years, years * 8) as exact fractions of a year:
\* t[j] = num[j + 1] / den, the step being years / (years * 8 - 1).
linspace(y) ==
    [num |-> [j \in 1..GridSize(y) |-> (j - 1) * y], den |-> GridSize(y) - 1]

\* initial_state of run_simulation.
InitialState == << initial_rats * PU, initial_mature_palms * PU,
                   initial_young_palms * PU, initial_mature_age * TU >>

\* One output step of odeint from sample k to sample k+1: an explicit Euler
\* step of length years / (n - 1) with the rates of ecosystem_dynamics.  The
\* remainder of the rat increment is carried in sub-units.
\* The Euler step from sample s with the rates d.
EulerStep(s, sub, d, y) ==
    LET n1 == GridSize(y) - 1
        rem == ((d.rates[1] % n1) * y) % n1
        fine == sub + (rem * SUB + d.rat_growth_sub * y) \div n1
    IN  [state |-> [c \in 1..4 |-> s[c] + MulR(d.rates[c], <<y, n1>>)
                                     + (IF c = 1 THEN fine \div SUB ELSE 0)],
         rats_sub |-> fine % SUB]

OdeAdvance(flag, initial_total, s, sub, k, y) ==
    EulerStep(s, sub,
              ecosystem_dynamics(flag, initial_total, s, sub, GridTime(k, y)), y)

\* A negative rate (-2.5 per year) and a large founding population, as a
\* caller may assign them to the attributes.
NegativeGrowth == <<-5, 2>>
ManyRats == 50000000

\* Whether odeint gives up on the configured problem.  With a negative
\* rat_intrinsic_growth g the rat equation is r' = r (|g| r / K - |g| - m) - h:
\* above K (1 + m / |g|) the rats grow at least quadratically and reach
\* infinity in finite time.  Up to the second grid point K stays below 1.17
\* initial_mature_palms, so from 5 initial_mature_palms rats the singularity
\* lies before the second grid point (0.113 years against more than 0.125),
\* and LSODA stops there with a negative istate.
IntegratorFails ==
    /\ rat_intrinsic_growth = NegativeGrowth
    /\ initial_mature_palms > 0
    /\ initial_rats >= 5 * initial_mature_palms

\* Variant: the last sample below the threshold is kept instead of the first.
LastBelow(old, s, k) ==
    [c \in 1..5 |-> IF s[2] + s[3] < thresholds[c] * PU THEN k ELSE old[c]]

\* np.where(total_palms < threshold)[0][0], kept up to date sample by sample.
FirstBelow(old, s, k) ==
    [c \in 1..5 |-> IF old[c] = -1 /\ s[2] + s[3] < thresholds[c] * PU
                    THEN k ELSE old[c]]

NoneBelow == [c \in 1..5 |-> -1]

\* np.where(total_palms < threshold)[0][0] for each threshold over a whole
\* array of totals, from sample k on; -1 where no sample is below.
RECURSIVE ScanBelow(_, _, _)
ScanBelow(total_palms, k, old) ==
    IF k = Len(total_palms)
    THEN old
    ELSE ScanBelow(total_palms, k + 1,
                   FirstBelow(old, <<0, total_palms[k + 1], 0, 0>>, k))

\* The year printed for a milestone: int(dates[index]) with dates = 1200 + t,
\* or "Not reached".
milestone_year(index, y) ==
    IF index = -1
    THEN [reached |-> FALSE, year |-> 0]
    ELSE [reached |-> TRUE, year |-> 1200 + (index * y) \div (GridSize(y) - 1)]

\* The milestone table of one scenario: for each threshold the index of the
\* first sample below it and the year printed.
milestones(total_palms) ==
    LET index == ScanBelow(total_palms, 0, NoneBelow)
    IN  [index |-> index,
         year |-> [c \in 1..5 |-> milestone_year(index[c], Len(total_palms) \div 8)]]

\* Variant: a run after the first starts from the state the last run left.
StartRunFromLeftover(y) ==
    LET start == IF returned = <<>> THEN InitialState ELSE state
    IN  /\ years' = y
        /\ i' = 0
        /\ state' = start
        /\ rats_sub' = 0
        /\ below' = FirstBelow(NoneBelow, start, 0)
        /\ solution' = IF observe THEN <<start>> ELSE <<>>
        /\ solver_status' = "ok"
        /\ pc' = "run"

\* The entry of run_simulation: the grid and the initial state.
StartRun(y) ==
    /\ years' = y
    /\ i' = 0
    /\ state' = InitialState
    /\ rats_sub' = 0
    /\ below' = FirstBelow(NoneBelow, InitialState, 0)
    /\ solution' = IF observe THEN <<InitialState>> ELSE <<>>
    /\ solver_status' = "ok"
    /\ pc' = "run"

\* What run_simulation returns (the final sample and the milestones stand for
\* the arrays; the arrays themselves when the observer keeps them), with the
\* attributes the run was made with and the outcome of odeint.
RunResult ==
    [flag |-> enable_human_clearing, years |-> years,
     stock |-> <<initial_mature_palms, initial_young_palms>>,
     rats |-> <<rat_intrinsic_growth, initial_rats>>,
     final |-> state, last |-> i, below |-> below, samples |-> solution,
     failed |-> solver_status = "failed"]

\* The tree stock and the period that print_comparison_statistics relates the
\* final totals to.
printed_initial_palms == 15000000
printed_years == 522

\* final / 15000000 * 100: the percentage of trees remaining, in 1/PU percent.
percent_remaining(final_palms) == MulR(final_palms, <<100, printed_initial_palms>>)

\* (15000000 - final) / 522: the trees lost per year, in 1/PU tree.
decline_rate(final_palms) ==
    (printed_initial_palms * PU - final_palms) \div printed_years

NoStatistics ==
    [computed |-> FALSE, timeline |-> 0, percent_remaining |-> <<0, 0>>,
     decline_rate |-> <<0, 0>>, milestones |-> <<NoneBelow, NoneBelow>>]

\* The figures print_comparison_statistics derives from the rats-only run and
\* the rats+humans run.
print_comparison_statistics(rats_run, humans_run) ==
    [computed |-> TRUE,
     timeline |-> rats_run.years,
     percent_remaining |-> << percent_remaining(rats_run.final[2] + rats_run.final[3]),
                              percent_remaining(humans_run.final[2] + humans_run.final[3]) >>,
     decline_rate |-> << decline_rate(rats_run.final[2] + rats_run.final[3]),
                         decline_rate(humans_run.final[2] + humans_run.final[3]) >>,
     milestones |-> << rats_run.below, humans_run.below >>]

\* The I/O of plot_results: figures saved to files and shown, lines printed.
PlotResultsIO == {"file", "figure", "console"}

NoProbe == [fn |-> "none", in |-> <<>>, out |-> <<>>, done |-> FALSE]

\* The instance before any call, apart from the rat attributes.
IdleEngine ==
    /\ enable_human_clearing = TRUE
    /\ initial_mature_palms = default_initial_mature_palms
    /\ initial_young_palms = default_initial_young_palms
    /\ pc = "new"
    /\ call = "none"
    /\ scenario = "none"
    /\ entry_flag = TRUE
    /\ years = 0
    /\ i = 0
    /\ state = <<0, 0, 0, 0>>
    /\ rats_sub = 0
    /\ below = NoneBelow
    /\ solution = <<>>
    /\ returned = <<>>
    /\ solver_status = "ok"
    /\ statistics = NoStatistics
    /\ io = {}

\* A new RapaNuiEcosystem().
NewInstance ==
    /\ rat_intrinsic_growth = default_rat_intrinsic_growth
    /\ initial_rats = default_initial_rats
    /\ IdleEngine

Init ==
    /\ NewInstance
    /\ calls_left = 1
    /\ observe = FALSE
    /\ probe = NoProbe

\* The caller sets the public attributes of the new instance.
SetAttributes(stock, flag) ==
    /\ pc = "new"
    /\ initial_mature_palms' = stock[1]
    /\ initial_young_palms' = stock[2]
    /\ enable_human_clearing' = flag
    /\ pc' = "ready"
    /\ UNCHANGED << configuration, call, scenario, entry_flag, years, i, state,
                    rats_sub, below, solution, returned, calls_left, observe,
                    probe, solver_status, statistics, io >>

\* run_simulation(years) called directly (main's standard simulation).
CallRunSimulation(y) ==
    /\ pc \in {"ready", "done"}
    /\ calls_left > 0
    /\ InputCase("run_simulation", y,
                 <<initial_mature_palms, initial_young_palms>>,
                 enable_human_clearing)
    /\ call' = "run_simulation"
    /\ scenario' = "standard"
    /\ entry_flag' = enable_human_clearing
    /\ calls_left' = calls_left - 1
    /\ StartRun(y)
    /\ UNCHANGED << configuration, enable_human_clearing, initial_mature_palms,
                    initial_young_palms, returned, observe, probe, statistics,
                    io >>

\* run_comparison_simulation(years) up to its first odeint call: the banner is
\* printed, the flag is cleared on the instance and the rats-only run starts.
CallRunComparison(y) ==
    /\ pc \in {"ready", "done"}
    /\ calls_left > 0
    /\ InputCase("run_comparison_simulation", y,
                 <<initial_mature_palms, initial_young_palms>>,
                 enable_human_clearing)
    /\ call' = "run_comparison_simulation"
    /\ scenario' = "rats_only"
    /\ entry_flag' = enable_human_clearing
    /\ io' = io \cup {"console"}
    /\ enable_human_clearing' = FALSE
    /\ calls_left' = calls_left - 1
    /\ StartRun(y)
    /\ UNCHANGED << configuration, initial_mature_palms, initial_young_palms,
                    returned, observe, probe, statistics >>

\* Variant: a run is taken as complete once odeint has produced one sample.
RunCompleteAfterOneSample == i >= 1

\* The last sample of the grid has been produced.
RunComplete == i = GridSize(years) - 1

\* odeint produces the next sample of the run in progress.
OdeStep ==
    /\ pc = "run"
    /\ ~IntegratorFails
    /\ i < GridSize(years) - 1
    /\ \E next \in {OdeAdvance(enable_human_clearing,
                               (initial_mature_palms + initial_young_palms) * PU,
                               state, rats_sub, i, years)} :
           /\ state' = next.state
           /\ rats_sub' = next.rats_sub
           /\ below' = FirstBelow(below, next.state, i + 1)
           /\ solution' = IF observe THEN Append(solution, next.state)
                                     ELSE solution
    /\ i' = i + 1
    /\ UNCHANGED << configuration, enable_human_clearing, initial_mature_palms,
                    initial_young_palms, pc, call, scenario, entry_flag, years,
                    returned, calls_left, observe, probe, solver_status,
                    statistics, io >>

\* The rats-only run of run_comparison_simulation returns; its figures are
\* plotted, the flag is set on the instance and the rats+humans run starts.
SwitchScenario ==
    /\ pc = "run"
    /\ scenario = "rats_only"
    /\ RunComplete
    /\ returned' = Append(returned, RunResult)
    /\ io' = io \cup PlotResultsIO
    /\ enable_human_clearing' = TRUE
    /\ scenario' = "rats_humans"
    /\ StartRun(years)
    /\ UNCHANGED << configuration, initial_mature_palms, initial_young_palms,
                    call, entry_flag, calls_left, observe, probe, statistics >>

\* run_simulation, called directly, returns.
FinishCall ==
    /\ pc = "run"
    /\ scenario = "standard"
    /\ RunComplete
    /\ returned' = Append(returned, RunResult)
    /\ pc' = "done"
    /\ UNCHANGED << configuration, enable_human_clearing, initial_mature_palms,
                    initial_young_palms, call, scenario, entry_flag, years, i,
                    state, rats_sub, below, solution, calls_left, observe,
                    probe, solver_status, statistics, io >>

\* The rats+humans run of run_comparison_simulation returns; its figures are
\* plotted and plot_comparison_results draws the comparison figures.
PlotComparison ==
    /\ pc = "run"
    /\ scenario = "rats_humans"
    /\ RunComplete
    /\ returned' = Append(returned, RunResult)
    /\ io' = io \cup PlotResultsIO
    /\ pc' = "compare"
    /\ UNCHANGED << configuration, enable_human_clearing, initial_mature_palms,
                    initial_young_palms, call, scenario, entry_flag, years, i,
                    state, rats_sub, below, solution, calls_left, observe,
                    probe, solver_status, statistics >>

\* plot_comparison_results calls print_comparison_statistics on the two
\* trajectories, and run_comparison_simulation returns them.
PrintComparisonStatistics ==
    /\ pc = "compare"
    /\ statistics' = print_comparison_statistics(returned[Len(returned) - 1],
                                                 returned[Len(returned)])
    /\ io' = io \cup {"console"}
    /\ pc' = "done"
    /\ UNCHANGED << configuration, enable_human_clearing, initial_mature_palms,
                    initial_young_palms, call, scenario, entry_flag, years, i,
                    state, rats_sub, below, solution, returned, calls_left,
                    observe, probe, solver_status >>

Next ==
    \/ \E stock \in InitialStocks, flag \in BOOLEAN : SetAttributes(stock, flag)
    \/ \E y \in Horizons : CallRunSimulation(y)
    \/ \E y \in Horizons : CallRunComparison(y)
    \/ OdeStep
    \/ SwitchScenario
    \/ FinishCall
    \/ PlotComparison
    \/ PrintComparisonStatistics

Spec == Init /\ [][Next]_vars

-----------------------------------------------------------------------------
(* Repeated calls on one instance, every sample of every run observed.     *)

RepeatCalls == 2

InitRepeat ==
    /\ NewInstance
    /\ calls_left = RepeatCalls
    /\ observe = TRUE
    /\ probe = NoProbe

SpecRepeat == InitRepeat /\ [][Next]_vars

-----------------------------------------------------------------------------
(* Direct evaluations of the forcing functions and of ecosystem_dynamics.  *)

\* Ages of the mature palms (years), up to MaxAgeYears, and ages one time
\* unit either side of the senescence age.
MaxAgeYears == 20000

AgeYears == {0, 150, 399, 400, 401, 430, 450, 499, 500, 501, 600, 1000,
             MaxAgeYears}

MortalityAges ==
    {a * TU : a \in AgeYears}
      \cup {palm_senescence_age * TU - 1, palm_senescence_age * TU + 1}

\* Times within the year (eighths, the trough at 0 and the peak at 1/2) and
\* times of the default grid; mature palm stocks down to none.
SeasonTimes ==
    {(k * TU) \div 8 : k \in 0..8} \cup {GridTime(k, DefaultYears) : k \in 1..9}
      \cup {(DefaultYears - 1) * TU + (k * TU) \div 8 : k \in 0..8}

MaturePalmStocks ==
    {0, 1, 99 * PU, 100 * PU, 101 * PU, 3000 * PU,
     default_initial_mature_palms * PU}

\* Times at which human_population is compared (years).  Up to the default
\* horizon the growth per step exceeds the resolution of the model; from
\* SaturationYears on, 149 * exp(-0.025 t) is below 2^-53, the rounding unit
\* of the doubles the program computes in.
SaturationYears == 1800
LaterYears == 2000

HumanTimes ==
    {y * TU : y \in {0, 1, 10, 50, 100, 150, 200, 400, DefaultYears,
                     SaturationYears, LaterYears}}

\* States handed to ecosystem_dynamics, negative components included, with
\* rates inside 32 bits.
ProbeRats == {-PU, 0, default_initial_rats * PU, rat_minimum_viable_population * PU,
              (rat_minimum_viable_population + 1) * PU, 500 * PU, 1000000 * PU}
ProbeMature == {-PU, 0, 100 * PU, 101 * PU, 200000 * PU,
                default_initial_mature_palms * PU}
ProbeYoung == {-PU, 0, 1000 * PU, default_initial_young_palms * PU}
\* The mean age of a forest younger than its 70-year-old recruits.
YoungForestAge == 30
ProbeAge == {-TU, YoungForestAge * TU, initial_mature_age * TU, 450 * TU}
ProbeSub == {0, SUB \div 2}
ProbeTimes == {0, GridTime(5, DefaultYears), 75 * TU + TU \div 2, 300 * TU}

RatesFit(s) ==
    LET c == ClampState(s)
    IN  /\ c[1] \div 16 <= Max(rat_minimum_viable_population * PU, c[2] \div 2)
        /\ c[2] > 100 * PU => c[3] \div 16 <= c[2]

ProbeStates ==
    {s \in ProbeRats \X ProbeMature \X ProbeYoung \X ProbeAge : RatesFit(s)}

DefaultInitialTotal ==
    (default_initial_mature_palms + default_initial_young_palms) * PU

\* Horizons whose time grid is built: the shortest ones, the short and the
\* default horizon.
MaxGridYears == 6

GridYears == (1..MaxGridYears) \cup {ShortYears, DefaultYears}

\* Totals of palms, one in each band the thresholds cut out.
MilestoneLevels ==
    {12000000 * PU, 7000000 * PU, 2000000 * PU, 500000 * PU, 50000 * PU, 5000 * PU}

\* Arrays of totals over the grid of a one-year run, monotone or not: five
\* samples at one level, then three samples at any levels.
MilestoneTrajectories ==
    {<<a, a, a, a, a, b, c, d>> : a \in MilestoneLevels, b \in MilestoneLevels,
                                  c \in MilestoneLevels, d \in MilestoneLevels}

ProbeInputs ==
    {[fn |-> "mature_mortality", in |-> <<a1, a2>>, out |-> <<>>, done |-> FALSE] :
        a1 \in MortalityAges, a2 \in MortalityAges}
    \cup
    {[fn |-> "seasonal_rat_carrying_capacity", in |-> <<t, m>>, out |-> <<>>,
      done |-> FALSE] : t \in SeasonTimes, m \in MaturePalmStocks}
    \cup
    {[fn |-> "human_population", in |-> <<t1, t2>>, out |-> <<>>, done |-> FALSE] :
        t1 \in HumanTimes, t2 \in HumanTimes}
    \cup
    {[fn |-> "ecosystem_dynamics", in |-> <<flag, s, sub, t>>, out |-> <<>>,
      done |-> FALSE] :
        flag \in BOOLEAN, s \in ProbeStates, sub \in ProbeSub, t \in ProbeTimes}
    \cup
    {[fn |-> "milestones", in |-> total_palms, out |-> <<>>, done |-> FALSE] :
        total_palms \in MilestoneTrajectories}
    \cup
    {[fn |-> "both_scenarios", in |-> <<s, sub, t>>, out |-> <<>>,
      done |-> FALSE] :
        s \in ProbeStates, sub \in ProbeSub, t \in ProbeTimes}
    \cup
    {[fn |-> "linspace", in |-> y, out |-> <<>>, done |-> FALSE] : y \in GridYears}

InitFn ==
    /\ NewInstance
    /\ calls_left = 0
    /\ observe = FALSE
    /\ probe \in ProbeInputs

EngineUnchanged ==
    UNCHANGED << configuration, enable_human_clearing, initial_mature_palms,
                 initial_young_palms, pc, call, scenario, entry_flag, years, i,
                 state, rats_sub, below, solution, returned, calls_left, observe,
                 solver_status, statistics, io >>

\* The mortality block of ecosystem_dynamics at two ages.
EvalMortality ==
    /\ probe.fn = "mature_mortality" /\ ~probe.done
    /\ probe' = [probe EXCEPT !.done = TRUE,
                     !.out = << mature_mortality(probe.in[1]),
                                mature_mortality(probe.in[2]) >>]
    /\ EngineUnchanged

\* seasonal_rat_carrying_capacity(t, mature_palms).
EvalCapacity ==
    /\ probe.fn = "seasonal_rat_carrying_capacity" /\ ~probe.done
    /\ probe' = [probe EXCEPT !.done = TRUE,
                     !.out = seasonal_rat_carrying_capacity(probe.in[1],
                                                            probe.in[2])]
    /\ EngineUnchanged

\* human_population at two times.
EvalHuman ==
    /\ probe.fn = "human_population" /\ ~probe.done
    /\ probe' = [probe EXCEPT !.done = TRUE,
                     !.out = << human_population(probe.in[1]),
                                human_population(probe.in[2]) >>]
    /\ EngineUnchanged

\* ecosystem_dynamics(state, t) on an instance with the default palm stock.
EvalDynamics ==
    /\ probe.fn = "ecosystem_dynamics" /\ ~probe.done
    /\ probe' = [probe EXCEPT !.done = TRUE,
                     !.out = ecosystem_dynamics(probe.in[1], DefaultInitialTotal,
                                                probe.in[2], probe.in[3],
                                                probe.in[4])]
    /\ EngineUnchanged

\* ecosystem_dynamics(state, t) on two instances with the default palm stock
\* that differ only in enable_human_clearing: without and with human impact.
EvalBothScenarios ==
    /\ probe.fn = "both_scenarios" /\ ~probe.done
    /\ probe' = [probe EXCEPT !.done = TRUE,
                     !.out = << ecosystem_dynamics(FALSE, DefaultInitialTotal,
                                                   probe.in[1], probe.in[2],
                                                   probe.in[3]),
                                ecosystem_dynamics(TRUE, DefaultInitialTotal,
                                                   probe.in[1], probe.in[2],
                                                   probe.in[3]) >>]
    /\ EngineUnchanged

\* The milestone loop of print_comparison_statistics on one scenario's totals.
EvalMilestones ==
    /\ probe.fn = "milestones" /\ ~probe.done
    /\ probe' = [probe EXCEPT !.done = TRUE, !.out = milestones(probe.in)]
    /\ EngineUnchanged

\* The time grid of run_simulation(years).
EvalGrid ==
    /\ probe.fn = "linspace" /\ ~probe.done
    /\ probe' = [probe EXCEPT !.done = TRUE, !.out = linspace(probe.in)]
    /\ EngineUnchanged

NextFn ==
    \/ EvalMortality \/ EvalCapacity \/ EvalHuman \/ EvalDynamics \/ EvalGrid
    \/ EvalBothScenarios \/ EvalMilestones

SpecFn == InitFn /\ [][NextFn]_vars

-----------------------------------------------------------------------------
(* Instances whose rat attributes the caller has assigned before the run,  *)
(* and the outcome of odeint on them.                                      *)

RatConfigurations ==
    { << default_rat_intrinsic_growth, default_initial_rats >>,
      << NegativeGrowth, default_initial_rats >>,
      << NegativeGrowth, ManyRats >> }

InitConfigured ==
    /\ \E c \in RatConfigurations :
           /\ rat_intrinsic_growth = c[1]
           /\ initial_rats = c[2]
    /\ IdleEngine
    /\ calls_left = 1
    /\ observe = TRUE
    /\ probe = NoProbe

\* What the rows of the array hold that odeint allocated and did not fill.
UnfilledRows == { <<0, 0, 0, 0>>, <<-PU, -PU, -PU, -TU>> }

\* LSODA gives up before the second grid point: odeint warns, stops and
\* returns the array with the rows it did not reach, and run_simulation goes
\* on with it.
OdeFail ==
    /\ pc = "run"
    /\ IntegratorFails
    /\ i = 0
    /\ \E row \in UnfilledRows :
           /\ state' = row
           /\ below' = FirstBelow(below, row, 1)
           /\ solution' = IF observe
                          THEN solution \o [k \in 1..(GridSize(years) - 1) |-> row]
                          ELSE solution
    /\ rats_sub' = 0
    /\ i' = GridSize(years) - 1
    /\ solver_status' = "failed"
    /\ UNCHANGED << configuration, enable_human_clearing, initial_mature_palms,
                    initial_young_palms, pc, call, scenario, entry_flag, years,
                    returned, calls_left, observe, probe, statistics, io >>

NextConfigured == Next \/ OdeFail

SpecConfigured == InitConfigured /\ [][NextConfigured]_vars

-----------------------------------------------------------------------------
(* A caller that evaluates ecosystem_dynamics itself, several times, before *)
(* and after a run of the same instance.                                   *)

\* The arguments (state, rats_sub, t) of the evaluations.
SequenceArguments ==
    { << InitialState, 0, 0 >>,
      << <<1000000 * PU, 200000 * PU, 1000 * PU, 450 * TU>>, 0, 300 * TU >>,
      << <<-PU, 0, 0, -TU>>, 0, 75 * TU + TU \div 2 >> }

SequenceProbes ==
    {[fn |-> "ecosystem_dynamics_sequence", in |-> <<x1, x2>>, out |-> <<>>,
      done |-> FALSE] : x1 \in SequenceArguments, x2 \in SequenceArguments}

\* Variant: the instance keeps the rates of its last evaluation and returns
\* them again.
EvaluateCached(earlier, s, sub, t) ==
    IF earlier # <<>>
    THEN earlier[Len(earlier)]
    ELSE ecosystem_dynamics(enable_human_clearing,
                            (initial_mature_palms + initial_young_palms) * PU,
                            s, sub, t)

\* self.ecosystem_dynamics(state, t) on an instance that has returned the
\* results `earlier` before: the attributes are read, nothing is kept.
EvaluateAfter(earlier, s, sub, t) ==
    ecosystem_dynamics(enable_human_clearing,
                       (initial_mature_palms + initial_young_palms) * PU,
                       s, sub, t)

InitPure ==
    /\ NewInstance
    /\ calls_left = 1
    /\ observe = TRUE
    /\ probe \in SequenceProbes

\* The next evaluation of the sequence, while no run is in progress.
EvalInSequence ==
    /\ probe.fn = "ecosystem_dynamics_sequence" /\ ~probe.done
    /\ pc \in {"new", "ready", "done"}
    /\ \E x \in {probe.in[Len(probe.out) + 1]} :
           probe' = [probe EXCEPT
                        !.out = Append(@, EvaluateAfter(probe.out, x[1], x[2], x[3])),
                        !.done = (Len(probe.out) + 1 = Len(probe.in))]
    /\ EngineUnchanged

NextPure == Next \/ EvalInSequence

SpecPure == InitPure /\ [][NextPure]_vars

-----------------------------------------------------------------------------
(* Properties.                                                             *)

TotalPalms(s) == s[2] + s[3]

NonNegative(s) == \A k \in 1..4 : s[k] >= 0

\* C1: in every trajectory of run_simulation from the initial state of the
\* instance (either value of the disturbance flag, every horizon explored),
\* every sample of rats, mature_palms, young_palms and mature_avg_age is >= 0.
C1_SamplesNonNegative ==
    /\ pc \in {"run", "done"} => NonNegative(state)
    /\ \A k \in 1..Len(returned) : NonNegative(returned[k].final)

\* A rats-only run of the short horizon has produced its last sample.
C1_Witness ==
    /\ pc = "run"
    /\ ~enable_human_clearing
    /\ years = ShortYears
    /\ i = GridSize(ShortYears) - 1
    /\ state # InitialState

\* C2: ecosystem_dynamics clamps the four components to >= 0 before any
\* formula uses them: for every state (negative components included) and
\* every t it returns the rates of the state max(s, 0), the components the
\* formulas saw are >= 0 and the divisor rat_carrying_capacity is positive.
C2_ClampedBeforeUse ==
    (probe.done /\ probe.fn = "ecosystem_dynamics") =>
        LET s == probe.in[2]
            nonneg == [k \in 1..4 |-> IF s[k] < 0 THEN 0 ELSE s[k]]
            sub == IF s[1] < 0 THEN 0 ELSE probe.in[3]
            d == ecosystem_dynamics(probe.in[1], DefaultInitialTotal, nonneg,
                                    sub, probe.in[4])
        IN  /\ probe.out.rates = d.rates
            /\ probe.out.rat_growth_sub = d.rat_growth_sub
            /\ probe.out.clamped = nonneg
            /\ probe.out.rat_carrying_capacity > 0

\* ecosystem_dynamics has been evaluated on a state with a negative age and
\* positive populations.
C2_Witness ==
    /\ probe.done
    /\ probe.fn = "ecosystem_dynamics"
    /\ probe.in[2][4] < 0
    /\ probe.in[2][2] > 100 * PU
    /\ probe.in[2][3] > 0

\* C3: with enable_human_clearing False, for every state and time,
\* ecosystem_dynamics uses clearing_rate = 0, mature_palm_clearing = 0,
\* young_palm_clearing = 0 and a rat harvest term of 0, in the normal and in
\* the small-population branch of rat growth.
C3_NoDisturbanceWhenDisabled ==
    (probe.done /\ probe.fn = "ecosystem_dynamics" /\ ~probe.in[1]) =>
        /\ probe.out.clearing_rate = 0
        /\ probe.out.mature_palm_clearing = 0
        /\ probe.out.young_palm_clearing = 0
        /\ probe.out.rat_harvest = 0

\* The flag is off, people are present and harvesting (t = 300 years), and
\* the rats are above the minimum viable population (normal branch).
C3_Witness ==
    /\ probe.done
    /\ probe.fn = "ecosystem_dynamics"
    /\ ~probe.in[1]
    /\ probe.in[4] = 300 * TU
    /\ probe.in[2][1] > rat_minimum_viable_population * PU
    /\ probe.in[2][2] > 0
    /\ probe.out.humans > initial_humans * TU

\* run_comparison_simulation has returned: its two runs, in call order.
ComparisonDone == pc = "done" /\ call = "run_comparison_simulation"

RatsOnlyRun == returned[Len(returned) - 1]

RatsHumansRun == returned[Len(returned)]

DefaultComparison ==
    /\ ComparisonDone
    /\ years = DefaultYears
    /\ <<initial_mature_palms, initial_young_palms>> = DefaultStock

\* C4 as stated: for two runs from the same initial state over the same
\* horizon that differ only in the flag, the final total tree count of the
\* disturbance-enabled run is <= that of the disturbance-disabled run.
C4_EnabledFinalNotAbove ==
    ComparisonDone =>
        TotalPalms(RatsHumansRun.final) <= TotalPalms(RatsOnlyRun.final)

\* C4 amended: for the default initial state and the default horizon of 522
\* years, the final total tree count of the disturbance-enabled run is <=
\* that of the disturbance-disabled run.
C4_DefaultEnabledFinalNotAbove ==
    DefaultComparison =>
        TotalPalms(RatsHumansRun.final) <= TotalPalms(RatsOnlyRun.final)

\* The default comparison has returned, the enabled run with fewer trees.
C4_Witness ==
    /\ DefaultComparison
    /\ RatsOnlyRun.flag = FALSE /\ RatsHumansRun.flag = TRUE
    /\ TotalPalms(RatsHumansRun.final) < TotalPalms(RatsOnlyRun.final)

\* The crossings of the disturbance-enabled run `on` are not later than those
\* of the disturbance-disabled run `off`, threshold by threshold.
OrderedCrossings(off, on) ==
    \A c \in 1..5 :
        off.below[c] # -1 => (on.below[c] # -1 /\ on.below[c] <= off.below[c])

MortalityCap == DivQ(1, 10)

\* C6: the age-dependent mortality of mature palms is non-decreasing in
\* mature_avg_age (across the senescence age 400 and the 80%-of-lifespan
\* threshold too) and never exceeds 0.1 per year, however large the age.
C6_MortalityMonotoneCapped ==
    (probe.done /\ probe.fn = "mature_mortality") =>
        /\ probe.out[1] <= MortalityCap
        /\ probe.out[2] <= MortalityCap
        /\ probe.in[1] <= probe.in[2] => probe.out[1] <= probe.out[2]

\* The mortality has been evaluated just below the senescence age and at the
\* largest age: the base rate there, the cap here.
C6_Witness ==
    /\ probe.done
    /\ probe.fn = "mature_mortality"
    /\ probe.in = <<palm_senescence_age * TU - 1, MaxAgeYears * TU>>
    /\ probe.out[1] < probe.out[2]
    /\ probe.out[2] = MortalityCap

\* C7: seasonal_rat_carrying_capacity(t, mature_palms) is >=
\* rat_minimum_viable_population for every t and every mature_palms >= 0,
\* mature_palms = 0 and the seasonal trough included.
C7_CapacityFloor ==
    (probe.done /\ probe.fn = "seasonal_rat_carrying_capacity") =>
        probe.out >= rat_minimum_viable_population * PU

\* The capacity has been evaluated with no mature palm at the trough (t = 0).
C7_Witness ==
    /\ probe.done
    /\ probe.fn = "seasonal_rat_carrying_capacity"
    /\ probe.in = <<0, 0>>
    /\ probe.out = rat_minimum_viable_population * PU

HumanRange(h) == initial_humans * TU <= h /\ h <= human_carrying_capacity * TU

\* C8 as stated: for the default demographic parameters and all t >= 0,
\* human_population(t) lies in [P0, K], human_population(0) = P0, and
\* human_population(t1) < human_population(t2) whenever 0 <= t1 < t2.
C8_StrictlyIncreasing ==
    (probe.done /\ probe.fn = "human_population") =>
        /\ HumanRange(probe.out[1]) /\ HumanRange(probe.out[2])
        /\ probe.in[1] = 0 => probe.out[1] = initial_humans * TU
        /\ probe.in[1] < probe.in[2] => probe.out[1] < probe.out[2]

\* C8 amended: human_population(t) lies in [P0, K], human_population(0) = P0,
\* and human_population(t1) <= human_population(t2) whenever 0 <= t1 < t2.
C8_NonDecreasing ==
    (probe.done /\ probe.fn = "human_population") =>
        /\ HumanRange(probe.out[1]) /\ HumanRange(probe.out[2])
        /\ probe.in[1] = 0 => probe.out[1] = initial_humans * TU
        /\ probe.in[1] < probe.in[2] => probe.out[1] <= probe.out[2]

\* human_population has been evaluated at 0 and at the default horizon: P0
\* at 0, more than P0 and less than K at the horizon.
C8_Witness ==
    /\ probe.done
    /\ probe.fn = "human_population"
    /\ probe.in = <<0, DefaultYears * TU>>
    /\ probe.out[1] = initial_humans * TU
    /\ probe.out[1] < probe.out[2]
    /\ probe.out[2] < human_carrying_capacity * TU

SameInputs(a, b) ==
    a.flag = b.flag /\ a.years = b.years /\ a.stock = b.stock

\* C9: two calls of run_simulation with identical parameters, initial state
\* and horizon return identical trajectories (nothing random, nothing left
\* over from a previous run enters a run).
C9_SameInputsSameTrajectory ==
    \A j, k \in 1..Len(returned) :
        SameInputs(returned[j], returned[k]) =>
            /\ returned[j].samples = returned[k].samples
            /\ returned[j].final = returned[k].final
            /\ returned[j].below = returned[k].below

\* run_simulation has been called twice with the same flag and the longest
\* observed horizon, and has returned both trajectories in full.
C9_Witness ==
    /\ pc = "done"
    /\ call = "run_simulation"
    /\ Len(returned) = 2
    /\ SameInputs(returned[1], returned[2])
    /\ returned[1].years = MaxObservedYears
    /\ Len(returned[1].samples) = GridSize(MaxObservedYears)
    /\ Len(returned[2].samples) = GridSize(MaxObservedYears)
    /\ returned[2].final # InitialState

\* C10: run_comparison_simulation does not flip the disturbance flag on the
\* instance it is called on: enable_human_clearing has the same value after
\* the call as before it, whatever that value was.
C10_FlagAsBefore ==
    ComparisonDone => enable_human_clearing = entry_flag

\* The attributes of the instance that ecosystem_dynamics reads.
AttributesUnchanged ==
    UNCHANGED << configuration, enable_human_clearing, initial_mature_palms,
                 initial_young_palms >>

\* C11: ecosystem_dynamics is pure: an evaluation changes no attribute of the
\* engine and nothing else of its state, leaves the state argument as it was
\* passed, and returns the rates determined by (state, t) and the attributes,
\* whatever was evaluated before; and every step of odeint inside a run, and
\* every step of a direct call of run_simulation, leaves the attributes
\* unchanged.
C11_DynamicsPure ==
    [][ /\ probe' # probe =>
            /\ AttributesUnchanged
            /\ UNCHANGED << pc, call, scenario, years, i, state, rats_sub,
                            solution, returned, statistics, io >>
            /\ probe'.in = probe.in
            /\ probe'.out =
                 Append(probe.out,
                        ecosystem_dynamics(
                            enable_human_clearing,
                            (initial_mature_palms + initial_young_palms) * PU,
                            probe.in[Len(probe.out) + 1][1],
                            probe.in[Len(probe.out) + 1][2],
                            probe.in[Len(probe.out) + 1][3]))
        /\ (pc = "run" /\ i' = i + 1) => AttributesUnchanged
        /\ call' = "run_simulation" => AttributesUnchanged ]_vars

\* After a direct run_simulation has returned, two evaluations on different
\* arguments have been made and have returned different rates.
C11_Witness ==
    /\ pc = "done"
    /\ call = "run_simulation"
    /\ probe.fn = "ecosystem_dynamics_sequence"
    /\ probe.done
    /\ probe.in[1] # probe.in[2]
    /\ probe.out[1].rates # probe.out[2].rates

\* C12: in run_comparison_simulation the comparison statistics are computed
\* only after both the disturbance-disabled run and the disturbance-enabled
\* run have completed and returned their full trajectories: whenever the
\* statistics exist no run is in progress, and the rats-only run and the
\* rats+humans run have each returned a trajectory that reaches the last
\* point of the grid.
C12_StatisticsAfterBothRuns ==
    statistics.computed =>
        /\ pc # "run"
        /\ Len(returned) = 2
        /\ returned[1].flag = FALSE
        /\ returned[2].flag = TRUE
        /\ \A k \in 1..2 : returned[k].last = GridSize(returned[k].years) - 1
        /\ statistics.milestones = << returned[1].below, returned[2].below >>

\* The comparison over the short horizon has computed its statistics.
C12_Witness ==
    /\ ComparisonDone
    /\ statistics.computed
    /\ years = ShortYears
    /\ statistics.timeline = ShortYears

\* The rat attributes hold a configuration the engine is to refuse.
InvalidConfiguration == rat_intrinsic_growth[1] < 0

\* C13: a configuration with a negative rate is rejected at configuration
\* time, before the integrator or ecosystem_dynamics is ever invoked: on an
\* instance with a negative rat_intrinsic_growth no run starts and nothing is
\* returned.
C13_InvalidConfigurationRejected ==
    InvalidConfiguration => (pc \in {"new", "ready"} /\ returned = <<>>)

\* C14: if the integrator fails during run_simulation, no trajectory is
\* returned: no result that run_simulation has returned comes from an
\* integration that odeint gave up.
C14_FailedIntegrationNotReturned ==
    \A k \in 1..Len(returned) : ~returned[k].failed

\* A returned run of the concrete scenario: all default parameters, initial
\* state (2, 9000000, 6000000, 150), horizon 522 years, the flag cleared.
DefaultRatsOnly(run) ==
    /\ run.years = DefaultYears
    /\ run.flag = FALSE
    /\ run.stock = DefaultStock
    /\ run.rats = << default_rat_intrinsic_growth, default_initial_rats >>

\* C15: with all default parameters, initial state (2, 9000000, 6000000, 150),
\* horizon 522 years and the disturbance flag cleared, the final total tree
\* count (mature + young) is at least half of the initial 15,000,000.
C15_RatsOnlyKeepsHalf ==
    \A k \in 1..Len(returned) :
        DefaultRatsOnly(returned[k]) =>
            2 * TotalPalms(returned[k].final)
                >= (default_initial_mature_palms + default_initial_young_palms) * PU

\* Both runs of run_comparison_simulation have returned.
BothRunsReturned ==
    call = "run_comparison_simulation" /\ pc \in {"compare", "done"}

\* C16: the two runs made by run_comparison_simulation use the same initial
\* state, the same horizon and time grid, and attribute values that are
\* equal in every field except enable_human_clearing, which is False for the
\* first (rats-only) run and True for the second (rats+humans) run.
C16_RunsDifferOnlyInFlag ==
    BothRunsReturned =>
        /\ RatsOnlyRun.samples[1] = RatsHumansRun.samples[1]
        /\ RatsOnlyRun.years = RatsHumansRun.years
        /\ Len(RatsOnlyRun.samples) = GridSize(RatsOnlyRun.years)
        /\ Len(RatsHumansRun.samples) = GridSize(RatsHumansRun.years)
        /\ RatsOnlyRun.last = RatsHumansRun.last
        /\ RatsOnlyRun.stock = RatsHumansRun.stock
        /\ RatsOnlyRun.rats = RatsHumansRun.rats
        /\ RatsOnlyRun.flag = FALSE
        /\ RatsHumansRun.flag = TRUE

\* A comparison over the longest observed horizon, entered with the flag set,
\* has returned two trajectories that start equal and end different.
C16_Witness ==
    /\ ComparisonDone
    /\ entry_flag
    /\ years = MaxObservedYears
    /\ RatsOnlyRun.samples[1] = InitialState
    /\ RatsOnlyRun.final # RatsHumansRun.final

\* The percentage of the configured initial stock that `run` ends with, and
\* its average loss of trees per simulated year.
PercentOfStock(run) ==
    MulR(TotalPalms(run.final), <<100, run.stock[1] + run.stock[2]>>)

LossPerYear(run) ==
    ((run.stock[1] + run.stock[2]) * PU - TotalPalms(run.final)) \div run.years

\* C17: for every horizon passed to run_comparison_simulation and every
\* configured initial tree stock, the comparison statistics give the
\* percentage of trees remaining as final total / (initial_mature_palms +
\* initial_young_palms) and each scenario's average decline rate as
\* (initial total - final total) / years.
C17_StatisticsOfSimulatedRun ==
    (ComparisonDone /\ statistics.computed) =>
        /\ statistics.percent_remaining =
               << PercentOfStock(RatsOnlyRun), PercentOfStock(RatsHumansRun) >>
        /\ statistics.decline_rate =
               << LossPerYear(RatsOnlyRun), LossPerYear(RatsHumansRun) >>

\* C18: the engine (run_simulation and run_comparison_simulation) performs no
\* I/O: between entry and return it emits no console output, draws or shows
\* no figure and writes no file.
C18_NoIO ==
    call \in {"run_simulation", "run_comparison_simulation"} => io = {}

\* The grid t = num / den starts at 0, ends exactly at y years and is
\* strictly increasing with constant spacing.
UniformGrid(t, y) ==
    /\ t.num[1] = 0
    /\ t.num[Len(t.num)] = y * t.den
    /\ \A j \in 1..(Len(t.num) - 1) : t.num[j] < t.num[j + 1]
    /\ \A j \in 1..(Len(t.num) - 2) :
           t.num[j + 1] - t.num[j] = t.num[j + 2] - t.num[j + 1]

\* The samples of the grid t in the year [k, k+1), and in [k, k+1].
SamplesInYear(t, k) ==
    Cardinality({j \in 1..Len(t.num) :
                    k * t.den <= t.num[j] /\ t.num[j] < (k + 1) * t.den})

SamplesInClosedYear(t, k) ==
    Cardinality({j \in 1..Len(t.num) :
                    k * t.den <= t.num[j] /\ t.num[j] <= (k + 1) * t.den})

C20_NoDivisionByZero ==
    (probe.done /\ probe.fn = "ecosystem_dynamics") =>
        /\ probe.out.rat_carrying_capacity >= rat_minimum_viable_population * PU
        /\ probe.out.predation_denominator >= 3000 * PU
        /\ probe.out.avg_age_divides => probe.out.clamped[2] > 100 * PU
        /\ ~probe.out.avg_age_divides => probe.out.rates[4] = 0

\* ecosystem_dynamics has been evaluated on a state with negative rats, no
\* mature palm and young palms present: every guard is at its floor.
C20_Witness ==
    /\ probe.done
    /\ probe.fn = "ecosystem_dynamics"
    /\ probe.in[2][1] < 0
    /\ probe.in[2][2] = 0
    /\ probe.in[2][3] > 0
    /\ probe.out.rat_carrying_capacity = rat_minimum_viable_population * PU
    /\ probe.out.predation_denominator = 3000 * PU
    /\ ~probe.out.avg_age_divides

\* `times` times the base mature mortality rate (0.005 per year), in Q20.
BaseMortalityTimes(times) == MulR(times * ONE, palm_natural_mortality_mature)

UpToMaxLifespan(age) == age <= palm_max_lifespan * TU

\* C21 as stated: for every mean age up to the maximum lifespan (500 years)
\* the age-dependent mature-tree mortality rate is at most 6 times the base
\* mature mortality rate, senescence scaling and near-maximum-lifespan
\* penalty combined.
C21_AtMostSixTimesBase ==
    (probe.done /\ probe.fn = "mature_mortality") =>
        \A k \in 1..2 :
            UpToMaxLifespan(probe.in[k]) => probe.out[k] <= BaseMortalityTimes(6)

\* C21 amended: for every mean age up to the maximum lifespan the rate is at
\* most 18 times the base mature mortality rate (3 times from the senescence
\* scaling, 6 times from the near-maximum-lifespan penalty).
C21_AtMostEighteenTimesBase ==
    (probe.done /\ probe.fn = "mature_mortality") =>
        \A k \in 1..2 :
            UpToMaxLifespan(probe.in[k]) => probe.out[k] <= BaseMortalityTimes(18)

\* The mortality has been evaluated at 450 years and at the maximum lifespan:
\* more than 6 times the base rate at both, and below the cap of 0.1.
C21_Witness ==
    /\ probe.done
    /\ probe.fn = "mature_mortality"
    /\ probe.in = <<450 * TU, palm_max_lifespan * TU>>
    /\ probe.out[1] > BaseMortalityTimes(6)
    /\ probe.out[2] > BaseMortalityTimes(17)
    /\ probe.out[2] < MortalityCap

\* A finished evaluation of ecosystem_dynamics.
DynamicsProbe == probe.done /\ probe.fn = "ecosystem_dynamics"

\* The rat rate of a result, as <<units, sub-units>> per year.
RatRate(d) == << d.rates[1], d.rat_growth_sub >>

\* The rat rate and the harvest subtracted in the small-population regime
\* (half the intrinsic rate, 10% of the nominal harvest, none when human
\* impact is disabled) or in the normal regime (full rate, full harvest).
RegimeTerms(small, flag, d) ==
    IF small
    THEN [rate |-> rat_growth_small(flag, d.clamped[1], d.rats_sub,
                                    d.rat_carrying_capacity, d.nominal_harvest),
          harvest |-> IF flag THEN MulR(d.nominal_harvest, <<1, 10>>) ELSE 0]
    ELSE [rate |-> rat_growth_normal(d.clamped[1], d.rat_carrying_capacity,
                                     d.nominal_harvest),
          harvest |-> d.nominal_harvest]

AgreesWithRegime(small, flag, d) ==
    /\ RatRate(d) = RegimeTerms(small, flag, d).rate
    /\ d.rat_harvest = RegimeTerms(small, flag, d).harvest

\* Exactly rat_minimum_viable_population rats.
AtMinimumViable(d) ==
    d.clamped[1] = rat_minimum_viable_population * PU /\ d.rats_sub = 0

\* C22 as stated: exactly when rats is below rat_minimum_viable_population,
\* ecosystem_dynamics uses half the intrinsic growth rate and subtracts 10% of
\* the nominal harvest (0 when disturbance is disabled); otherwise it uses the
\* full rate and subtracts the full harvest.
C22_SmallRegimeBelowThreshold ==
    DynamicsProbe =>
        AgreesWithRegime(probe.out.clamped[1] < rat_minimum_viable_population * PU,
                         probe.in[1], probe.out)

\* C22 amended: exactly when rats is at or below rat_minimum_viable_population,
\* ecosystem_dynamics uses half the intrinsic growth rate and subtracts 10% of
\* the nominal harvest (0 when disturbance is disabled); otherwise it uses the
\* full rate and subtracts the full harvest.
C22_SmallRegimeAtOrBelowThreshold ==
    DynamicsProbe =>
        AgreesWithRegime(\/ probe.out.clamped[1] < rat_minimum_viable_population * PU
                         \/ AtMinimumViable(probe.out),
                         probe.in[1], probe.out)

\* The rates have been evaluated with human impact for exactly 50 rats, where
\* the two regimes give different rates and people harvest rats.
C22_Witness ==
    /\ DynamicsProbe
    /\ probe.in[1]
    /\ AtMinimumViable(probe.out)
    /\ probe.out.nominal_harvest > 0
    /\ RegimeTerms(TRUE, TRUE, probe.out) # RegimeTerms(FALSE, TRUE, probe.out)
    /\ RatRate(probe.out) = RegimeTerms(TRUE, TRUE, probe.out).rate

\* The palms of a cohort outside refugia.
AccessibleStock(cohort) == MulR(cohort, OneMinus(palm_refugia_effect))

\* C23: with disturbance enabled, for every state and every t >= 0 the
\* clearing term for mature trees is at most 18% of the accessible
\* (non-refugia) mature stock and the clearing term for young trees is at most
\* 12% of the accessible young stock, so clearing never draws on the refugia
\* fraction and is 0 for a cohort whose count is 0.
C23_ClearingWithinAccessibleStock ==
    (DynamicsProbe /\ probe.in[1]) =>
        LET d == probe.out
        IN  /\ probe.in[4] >= 0
            /\ d.mature_palm_clearing >= 0
            /\ d.mature_palm_clearing
                 <= MulR(AccessibleStock(d.clamped[2]), <<18, 100>>)
            /\ d.mature_palm_clearing <= AccessibleStock(d.clamped[2])
            /\ d.young_palm_clearing >= 0
            /\ d.young_palm_clearing
                 <= MulR(AccessibleStock(d.clamped[3]), <<12, 100>>)
            /\ d.young_palm_clearing <= AccessibleStock(d.clamped[3])
            /\ d.clamped[2] = 0 => d.mature_palm_clearing = 0
            /\ d.clamped[3] = 0 => d.young_palm_clearing = 0

\* With human impact, 75% of the clearing rate is more than 18% of the
\* accessible mature palms, so the cap binds, while young palms are cleared
\* below their cap.
C23_Witness ==
    /\ DynamicsProbe
    /\ probe.in[1]
    /\ probe.out.clearing_rate > 0
    /\ probe.out.clamped[2] > 0
    /\ MulR(probe.out.clearing_rate, <<75, 100>>)
         > MulR(AccessibleStock(probe.out.clamped[2]), <<18, 100>>)
    /\ probe.out.mature_palm_clearing
         = MulR(AccessibleStock(probe.out.clamped[2]), <<18, 100>>)
    /\ probe.out.mature_palm_clearing > 0
    /\ probe.out.young_palm_clearing > 0
    /\ probe.out.young_palm_clearing
         < MulR(AccessibleStock(probe.out.clamped[3]), <<12, 100>>)

\* The pressure on refugia seeds is `share` of the pressure on accessible
\* seeds: refugia_survival = refugia_reproduction * (1 - share * pressure).
RefugiaPressureShare(share, d) ==
    /\ d.refugia_pressure = MulR(d.predation_pressure, share)
    /\ d.refugia_survival
         = MulQ(d.refugia_reproduction, ONE - MulR(d.predation_pressure, share))

\* C24 as stated: refugia seeds receive a 40% discount on seed-predation
\* pressure: for every rat count, the pressure applied to refugia reproduction
\* equals 60% of the pressure applied to accessible reproduction.
C24_RefugiaPressureSixtyPercent ==
    DynamicsProbe => RefugiaPressureShare(<<6, 10>>, probe.out)

\* C24 amended: refugia seeds receive a 60% discount on seed-predation
\* pressure: for every rat count, the pressure applied to refugia reproduction
\* equals 40% of the pressure applied to accessible reproduction.
C24_RefugiaPressureFortyPercent ==
    DynamicsProbe => RefugiaPressureShare(<<4, 10>>, probe.out)

\* The rates have been evaluated for a stock with palms in refugia and rats
\* that eat seeds: 40% and 60% of the pressure leave different numbers of
\* refugia seedlings.
C24_Witness ==
    /\ DynamicsProbe
    /\ probe.out.clamped[1] > 0
    /\ probe.out.predation_pressure > 0
    /\ probe.out.refugia_reproduction > 0
    /\ probe.out.refugia_survival
         # MulQ(probe.out.refugia_reproduction,
                ONE - MulR(probe.out.predation_pressure, <<6, 10>>))
    /\ probe.out.refugia_survival < probe.out.refugia_reproduction

\* The mean-age rate is 1 year per year plus the recruitment term, the
\* recruitment-to-population ratio times (70 - mean age), above the
\* small-sample threshold of 100 mature palms, and 0 otherwise.
AgeRateAsComputed(d) ==
    d.rates[4] = IF d.clamped[2] > 100 * PU
                 THEN TU + MulQ(DivQ(d.mature_palm_recruitment, d.clamped[2]),
                                70 * TU - d.clamped[4])
                 ELSE 0

\* C25 as stated: the mean-age rate returned by ecosystem_dynamics never
\* exceeds +1 per year: for every state and t it is 1 adjusted downward by the
\* recruitment-dilution term above the small-sample threshold, 0 otherwise.
C25_AgeRateAtMostOne ==
    DynamicsProbe => (AgeRateAsComputed(probe.out) /\ probe.out.rates[4] <= TU)

\* C25 amended: for every state whose mean age is at least 70 years and every
\* t, the mean-age rate never exceeds +1 per year: it is 1 adjusted downward
\* by the recruitment-dilution term above the small-sample threshold, and 0
\* otherwise.
C25_AgeRateAtMostOneFromSeventy ==
    DynamicsProbe =>
        /\ AgeRateAsComputed(probe.out)
        /\ probe.out.clamped[4] >= 70 * TU => probe.out.rates[4] <= TU

\* The rates have been evaluated for a forest older than 70 years with
\* recruits, whose mean age grows by less than a year per year.
C25_Witness ==
    /\ DynamicsProbe
    /\ probe.out.clamped[4] > 70 * TU
    /\ probe.out.clamped[2] > 100 * PU
    /\ probe.out.mature_palm_recruitment > 0
    /\ probe.out.rates[4] < TU

\* No rats at all, sub-units included.
NoRats(d) == d.clamped[1] = 0 /\ d.rats_sub = 0

\* C26: at the zero boundary the rate vector never points out of the
\* non-negative region: for every clamped state, rats = 0 gives a rat rate of
\* 0, mature_palms = 0 gives a mature rate >= 0 and young_palms = 0 gives a
\* young rate >= 0.
C26_RatesInwardAtZero ==
    DynamicsProbe =>
        LET d == probe.out
        IN  /\ NoRats(d) => RatRate(d) = <<0, 0>>
            /\ d.clamped[2] = 0 => d.rates[2] >= 0
            /\ d.clamped[3] = 0 => d.rates[3] >= 0

\* With human impact and people who harvest rats and clear palms, the rates
\* have been evaluated for a state without rats and mature palms but with
\* young palms: the rat rate is 0 and the mature rate is the recruitment.
C26_Witness ==
    /\ DynamicsProbe
    /\ probe.in[1]
    /\ probe.in[4] > 0
    /\ probe.out.humans > 0
    /\ NoRats(probe.out)
    /\ probe.out.clamped[2] = 0
    /\ probe.out.clamped[3] > 0
    /\ probe.out.clearing_rate > 0
    /\ RatRate(probe.out) = <<0, 0>>
    /\ probe.out.rates[2] = probe.out.mature_palm_recruitment
    /\ probe.out.rates[2] > 0

\* Rat rates <<units, sub-units>> in their order as numbers.
RatRateAtMost(a, b) == a[1] < b[1] \/ (a[1] = b[1] /\ a[2] <= b[2])

\* C27: for the same state and t, the rates returned by ecosystem_dynamics
\* with disturbance enabled are less than or equal to those with it disabled
\* for rats, mature palms and young palms, and the mean-age rate is identical.
C27_EnabledRatesNotAbove ==
    (probe.done /\ probe.fn = "both_scenarios") =>
        LET disabled == probe.out[1]
            enabled == probe.out[2]
        IN  /\ enabled.clamped = disabled.clamped
            /\ RatRateAtMost(RatRate(enabled), RatRate(disabled))
            /\ enabled.rates[2] <= disabled.rates[2]
            /\ enabled.rates[3] <= disabled.rates[3]
            /\ enabled.rates[4] = disabled.rates[4]

\* The rates have been evaluated without and with human impact for a state
\* where people harvest rats and clear both cohorts: the three population
\* rates are lower with human impact.
C27_Witness ==
    /\ probe.done
    /\ probe.fn = "both_scenarios"
    /\ probe.out[2].rat_harvest > 0
    /\ probe.out[2].mature_palm_clearing > 0
    /\ probe.out[2].young_palm_clearing > 0
    /\ RatRate(probe.out[2]) # RatRate(probe.out[1])
    /\ probe.out[2].rates[2] < probe.out[1].rates[2]
    /\ probe.out[2].rates[3] < probe.out[1].rates[3]
    /\ probe.out[2].rates[4] = probe.out[1].rates[4]
    /\ probe.out[2].rates[4] > 0

\* Some rats, and at least as many as the seasonal carrying capacity.
AtOrAboveCapacity(d) ==
    /\ d.clamped[1] > 0 \/ d.rats_sub > 0
    /\ d.clamped[1] >= d.rat_carrying_capacity

\* C28: whenever rats is positive and at or above the seasonal carrying
\* capacity at time t, the rat rate returned by ecosystem_dynamics is strictly
\* negative, with or without disturbance.
C28_DeclineAtOrAboveCapacity ==
    DynamicsProbe =>
        (AtOrAboveCapacity(probe.out) => probe.out.rates[1] < 0)

\* Without human impact, the rates have been evaluated for a rat population
\* exactly at the carrying capacity: logistic growth is 0 and the natural
\* mortality makes the rate negative.
C28_Witness ==
    /\ DynamicsProbe
    /\ ~probe.in[1]
    /\ probe.out.clamped[1] = probe.out.rat_carrying_capacity
    /\ probe.out.rats_sub = 0
    /\ probe.out.rat_harvest = 0
    /\ probe.out.rates[1] = -MulR(probe.out.clamped[1], rat_natural_mortality)
    /\ probe.out.rates[1] < 0

\* C29: within one scenario the milestone years are consistent along the
\* descending threshold list: the first year the total is below a lower
\* threshold is never earlier than the first year it is below a higher
\* threshold, and once a threshold is "Not reached" every lower threshold is
\* "Not reached" too, for any trajectory, monotone or not.
C29_MilestonesConsistent ==
    (probe.done /\ probe.fn = "milestones") =>
        \A c \in 1..5 : \A d \in 1..5 :
            c < d =>
                /\ ~probe.out.year[c].reached => ~probe.out.year[d].reached
                /\ probe.out.year[d].reached =>
                      /\ probe.out.index[c] <= probe.out.index[d]
                      /\ probe.out.year[c].year <= probe.out.year[d].year

\* The milestones have been computed for totals that fall, rise and fall
\* again: the higher thresholds are crossed in 1200, a lower one in 1201 and
\* the lowest is not reached.
C29_Witness ==
    /\ probe.done
    /\ probe.fn = "milestones"
    /\ probe.in[6] < probe.in[5]
    /\ probe.in[7] > probe.in[6]
    /\ probe.in[8] < probe.in[6]
    /\ probe.out.index[1] = 5
    /\ probe.out.index[3] = 7
    /\ probe.out.year[1] = [reached |-> TRUE, year |-> 1200]
    /\ probe.out.year[3] = [reached |-> TRUE, year |-> 1201]
    /\ ~probe.out.year[5].reached

\* C30: maturation conserves trees: in every evaluation of ecosystem_dynamics
\* the maturation outflow subtracted from young_palms equals the recruitment
\* inflow added to mature_palms, so the rate of the total tree count equals
\* surviving reproduction minus natural mortality of both cohorts minus
\* clearing of both cohorts.
C30_MaturationConservesTrees ==
    DynamicsProbe =>
        LET d == probe.out
        IN  /\ d.young_palm_maturation = d.mature_palm_recruitment
            /\ d.mature_palm_recruitment = d.clamped[3] \div palm_maturation_time
            /\ d.rates[2] + d.rates[3]
                 = d.actual_reproduction
                     - (d.mature_natural_loss + d.young_natural_loss)
                     - (d.mature_palm_clearing + d.young_palm_clearing)

\* With human impact, the rates have been evaluated for a state where young
\* palms mature, seedlings survive, palms die and both cohorts are cleared.
C30_Witness ==
    /\ DynamicsProbe
    /\ probe.in[1]
    /\ probe.out.mature_palm_recruitment > 0
    /\ probe.out.young_palm_maturation > 0
    /\ probe.out.actual_reproduction > 0
    /\ probe.out.mature_natural_loss > 0
    /\ probe.out.young_natural_loss > 0
    /\ probe.out.mature_palm_clearing > 0
    /\ probe.out.young_palm_clearing > 0
    /\ probe.out.rates[2] + probe.out.rates[3] < 0

=============================================================================
